---- MODULE Spec2Model ----
(***************************************************************************)
(* Model of preprocess_list.py: parsing of a .list file into Rule records, *)
(* validation against VALID_RULE_TYPES, group-scoped deduplication and the *)
(* process_file pipeline (backup, load, dedup, validate, write).           *)
(*                                                                         *)
(* Text is modelled as sequences of one-character strings, so that strip,  *)
(* upper, split and the newline handling of text-mode files are computed   *)
(* and not assumed.                                                        *)
(***************************************************************************)
EXTENDS Integers, Sequences, FiniteSets, TLC

(***************************************************************************)
(* Bounds                                                                  *)
(***************************************************************************)
\* largest number of pool lines concatenated into a generated input file
MaxLines == 2

(***************************************************************************)
(* Characters and the str methods used by the program                      *)
(***************************************************************************)
LF == "\n"
CR == "\r"

\* the whitespace characters str.strip() removes (those that occur in the inputs)
Whitespace == {" ", "\t", LF, CR}

LowerLetters == <<"a","b","c","d","e","f","g","h","i","j","k","l","m",
                  "n","o","p","q","r","s","t","u","v","w","x","y","z">>
UpperLetters == <<"A","B","C","D","E","F","G","H","I","J","K","L","M",
                  "N","O","P","Q","R","S","T","U","V","W","X","Y","Z">>

UpperChar(c) ==
    IF \E i \in 1..26 : LowerLetters[i] = c
    THEN UpperLetters[CHOOSE i \in 1..26 : LowerLetters[i] = c]
    ELSE c

\* str.upper()
upper(s) == [i \in 1..Len(s) |-> UpperChar(s[i])]

RECURSIVE lstrip(_)
lstrip(s) ==
    IF s = <<>> THEN <<>>
    ELSE IF Head(s) \in Whitespace THEN lstrip(Tail(s)) ELSE s

RECURSIVE rstrip(_)
rstrip(s) ==
    IF s = <<>> THEN <<>>
    ELSE IF s[Len(s)] \in Whitespace THEN rstrip(SubSeq(s, 1, Len(s) - 1)) ELSE s

\* str.strip()
strip(s) == rstrip(lstrip(s))

\* index of the first occurrence of character c in s, 0 when there is none
find(s, c) ==
    IF \E i \in 1..Len(s) : s[i] = c
    THEN CHOOSE i \in 1..Len(s) : s[i] = c /\ \A j \in 1..(i - 1) : s[j] # c
    ELSE 0

\* str.split(',', 1) on a string that contains a comma
split_comma_1(s) ==
    LET k == find(s, ",")
    IN  << SubSeq(s, 1, k - 1), SubSeq(s, k + 1, Len(s)) >>

(***************************************************************************)
(* VALID_RULE_TYPES                                                        *)
(***************************************************************************)
VALID_RULE_TYPES == {
    <<"D","O","M","A","I","N">>,
    <<"D","O","M","A","I","N","-","S","U","F","F","I","X">>,
    <<"D","O","M","A","I","N","-","K","E","Y","W","O","R","D">>,
    <<"G","E","O","I","P">>,
    <<"I","P","-","C","I","D","R">>,
    <<"I","P","-","C","I","D","R","6">>,
    <<"S","R","C","-","I","P","-","C","I","D","R">>,
    <<"P","R","O","C","E","S","S","-","N","A","M","E">>,
    <<"P","R","O","C","E","S","S","-","P","A","T","H">>,
    <<"R","U","L","E","-","S","E","T">>,
    <<"U","S","E","R","-","A","G","E","N","T">>,
    <<"U","R","L","-","R","E","G","E","X">>,
    <<"A","N","D">>,
    <<"O","R">>,
    <<"N","O","T">>,
    <<"I","N">> }

\* the sentinel type parse_rule gives to a line without a comma
UNKNOWN == <<"U","N","K","N","O","W","N">>

(***************************************************************************)
(* Rule, parse_rule, validate_rule                                         *)
(***************************************************************************)
Rule(raw, type, value, is_comment, is_empty) ==
    [raw |-> raw, type |-> type, value |-> value,
     is_comment |-> is_comment, is_empty |-> is_empty]

parse_rule(line) ==
    LET stripped == strip(line)
    IN  IF stripped = <<>>
        THEN Rule(line, <<>>, <<>>, FALSE, TRUE)
        ELSE IF Head(stripped) = "#"
        THEN Rule(line, <<>>, <<>>, TRUE, FALSE)
        ELSE IF find(stripped, ",") # 0
        THEN LET parts == split_comma_1(stripped)
             IN  Rule(line, upper(strip(parts[1])), strip(parts[2]), FALSE, FALSE)
        ELSE Rule(line, UNKNOWN, stripped, FALSE, FALSE)

\* the three failure messages of validate_rule, as the fields the f-strings interpolate
ErrorMessage(text, type, content) == [text |-> text, type |-> type, content |-> content]

NoMessage == ErrorMessage("", <<>>, <<>>)

validate_rule_missing_value_unchecked(rule, valid_types) ==
    IF rule.is_comment \/ rule.is_empty THEN << TRUE, NoMessage >>
    ELSE IF rule.type = UNKNOWN
    THEN << FALSE, ErrorMessage("Unknown rule format", <<>>, strip(rule.raw)) >>
    ELSE IF rule.type \notin valid_types
    THEN << FALSE, ErrorMessage("Invalid rule type", rule.type, strip(rule.raw)) >>
    ELSE << TRUE, NoMessage >>

validate_rule(rule, valid_types) ==
    IF rule.is_comment \/ rule.is_empty THEN << TRUE, NoMessage >>
    ELSE IF rule.type = UNKNOWN
    THEN << FALSE, ErrorMessage("Unknown rule format", <<>>, strip(rule.raw)) >>
    ELSE IF rule.type \notin valid_types
    THEN << FALSE, ErrorMessage("Invalid rule type", rule.type, strip(rule.raw)) >>
    ELSE IF rule.value = <<>>
    THEN << FALSE, ErrorMessage("Missing value for rule type", rule.type, strip(rule.raw)) >>
    ELSE << TRUE, NoMessage >>

(***************************************************************************)
(* Text-mode file reading and writing (open(..., encoding='utf-8'))        *)
(***************************************************************************)
\* reading with newline=None: "\r\n" and a lone "\r" are returned as "\n"
RECURSIVE universal_newlines(_)
universal_newlines(data) ==
    IF data = <<>> THEN <<>>
    ELSE IF Head(data) = CR
    THEN <<LF>> \o universal_newlines(
             IF Len(data) > 1 /\ data[2] = LF THEN Tail(Tail(data)) ELSE Tail(data))
    ELSE <<Head(data)>> \o universal_newlines(Tail(data))

\* iterating a text file: the lines of the text, each with its terminating "\n"
RECURSIVE iter_lines(_)
iter_lines(text) ==
    IF text = <<>> THEN <<>>
    ELSE LET k == find(text, LF)
         IN  IF k = 0 THEN << text >>
             ELSE << SubSeq(text, 1, k) >> \o iter_lines(SubSeq(text, k + 1, Len(text)))

read_lines(data) == iter_lines(universal_newlines(data))

\* writing with newline=None: every "\n" is written as os.linesep
RECURSIVE write_text(_, _)
write_text(text, linesep) ==
    IF text = <<>> THEN <<>>
    ELSE (IF Head(text) = LF THEN linesep ELSE <<Head(text)>>)
         \o write_text(Tail(text), linesep)

(***************************************************************************)
(* load_rules, deduplicate_rules, validate_all_rules                       *)
(***************************************************************************)
ParseWarning(line_num, content) == [line_num |-> line_num, content |-> content]

\* load_rules applied to the bytes of the file: (rules, parse_errors)
load_rules(data) ==
    LET lines == read_lines(data)
        rules_ == [i \in 1..Len(lines) |-> parse_rule(lines[i])]
        RECURSIVE errs(_)
        errs(n) ==
            IF n = 0 THEN <<>>
            ELSE errs(n - 1) \o
                 (IF rules_[n].type = UNKNOWN
                  THEN << ParseWarning(n, strip(lines[n])) >>
                  ELSE <<>>)
    IN  << rules_, errs(Len(lines)) >>

key_of(rule) == rule.type \o <<",">> \o rule.value

\* duplicate_counts[key] += 1 on a defaultdict(int)
Increment(counts, key) ==
    IF key \in DOMAIN counts
    THEN [counts EXCEPT ![key] = @ + 1]
    ELSE [k \in DOMAIN counts \cup {key} |-> IF k = key THEN 1 ELSE counts[k]]

EmptyCounts == [k \in {} |-> 0]

\* one iteration of the loop of deduplicate_rules on accumulator acc
dedup_step_no_reset(acc, rule) ==
    IF rule.is_comment \/ rule.is_empty
    THEN [acc EXCEPT !.result = Append(@, rule)]
    ELSE LET key == key_of(rule)
         IN  IF key \notin acc.seen_in_group
             THEN [acc EXCEPT !.seen_in_group = @ \cup {key}, !.result = Append(@, rule)]
             ELSE [acc EXCEPT !.duplicate_counts = Increment(@, key)]

dedup_step_forget_on_duplicate(acc, rule) ==
    IF rule.is_comment \/ rule.is_empty
    THEN [acc EXCEPT !.seen_in_group = {}, !.result = Append(@, rule)]
    ELSE LET key == key_of(rule)
         IN  IF key \notin acc.seen_in_group
             THEN [acc EXCEPT !.seen_in_group = @ \cup {key}, !.result = Append(@, rule)]
             ELSE [acc EXCEPT !.seen_in_group = @ \ {key},
                              !.duplicate_counts = Increment(@, key)]

dedup_step(acc, rule) ==
    IF rule.is_comment \/ rule.is_empty
    THEN [acc EXCEPT !.seen_in_group = {}, !.result = Append(@, rule)]
    ELSE LET key == key_of(rule)
         IN  IF key \notin acc.seen_in_group
             THEN [acc EXCEPT !.seen_in_group = @ \cup {key}, !.result = Append(@, rule)]
             ELSE [acc EXCEPT !.duplicate_counts = Increment(@, key)]

\* deduplicate_rules(rules): (result, duplicate_counts)
deduplicate_rules(rs) ==
    LET RECURSIVE loop(_)
        loop(n) ==
            IF n = 0
            THEN [duplicate_counts |-> EmptyCounts, result |-> <<>>, seen_in_group |-> {}]
            ELSE dedup_step(loop(n - 1), rs[n])
        final == loop(Len(rs))
    IN  << final.result, final.duplicate_counts >>

\* validate_all_rules(rules): the error messages of the failing rules, in order
validate_all_rules(rs) ==
    LET RECURSIVE loop(_)
        loop(n) ==
            IF n = 0 THEN <<>>
            ELSE LET v == validate_rule(rs[n], VALID_RULE_TYPES)
                 IN  loop(n - 1) \o (IF ~v[1] THEN << v[2] >> ELSE <<>>)
    IN  loop(Len(rs))

(***************************************************************************)
(* Input files                                                             *)
(***************************************************************************)
\* a comment
LineCommentA == <<"#","A",LF>>
\* another comment
LineCommentB == <<"#","B",LF>>
\* an empty line
LineEmpty == <<LF>>
\* a valid rule
LineDomain == <<"D","O","M","A","I","N",",","x",".","c","o","m",LF>>
\* the same rule in another spelling, from a file with CRLF line ends
LineDomainLowerCRLF == <<"d","o","m","a","i","n",","," ","x",".","c","o","m",CR,LF>>
\* a rule whose value differs from x.com only in case
LineDomainUpperValue == <<"D","O","M","A","I","N",",","X",".","c","o","m",LF>>
\* a rule of a type outside the vocabulary
LineFoo == <<"F","O","O",",","b","a","r",LF>>
\* a rule with nothing after the comma
LineNoValue == <<"D","O","M","A","I","N",",",LF>>
\* a valid rule of another type
LineSuffix == <<"D","O","M","A","I","N","-","S","U","F","F","I","X",",","e","x","a","m","p","l","e",".","c","o","m",LF>>
\* a line without a comma
LineMalformed == <<"j","u","s","t","s","o","m","e","t","e","x","t",LF>>
\* the same text indented, as the last line of a file without a final newline
LineMalformedIndented == <<" ","j","u","s","t","s","o","m","e","t","e","x","t">>
\* a rule whose type token is the word UNKNOWN
LineUnknownTyped == <<"U","N","K","N","O","W","N",",","j","u","s","t","s","o","m","e","t","e","x","t",LF>>

\* the lines generated input files are built from
LinePool == { LineCommentA, LineEmpty, LineDomain, LineDomainLowerCRLF,
              LineDomainUpperValue, LineFoo, LineNoValue, LineMalformed,
              LineMalformedIndented, LineUnknownTyped }

RECURSIVE Concat(_)
Concat(ls) == IF ls = <<>> THEN <<>> ELSE Head(ls) \o Concat(Tail(ls))

\* every concatenation of at most MaxLines pool lines
GeneratedFiles ==
    { Concat(ls) : ls \in UNION { [1..n -> LinePool] : n \in 0..MaxLines } }

\* the inputs named in the documentation of the behaviour
GroupIsolationFile ==
    Concat(<< LineCommentA, LineDomain, LineDomain, LineCommentB, LineDomain >>)

ValidationFile == Concat(<< LineFoo, LineNoValue, LineSuffix >>)

AcceptedFile == Concat(<< LineCommentA, LineSuffix, LineEmpty, LineDomain >>)

TripleFile == Concat(<< LineDomain, LineDomainLowerCRLF, LineDomain >>)

DuplicateThenInvalidFile == Concat(<< LineDomain, LineDomain, LineFoo, LineMalformed >>)

ExampleFiles == { GroupIsolationFile, ValidationFile, AcceptedFile, TripleFile,
                  DuplicateThenInvalidFile }

InputFiles == GeneratedFiles \cup ExampleFiles

(***************************************************************************)
(* The file system and the arguments of process_file                       *)
(***************************************************************************)
InputPath == "in.list"
OtherPath == "out.list"
None == "None"

\* input_file.with_suffix('.list.bak')
with_suffix_list_bak(path) == IF path = "in.list" THEN "in.list.bak" ELSE "out.list.bak"

Paths == { InputPath, OtherPath, with_suffix_list_bak(InputPath) }

File(data) == [exists |-> TRUE, data |-> data]
NoFile == [exists |-> FALSE, data |-> <<>>]

\* what the output path holds before the run
OldOutput == <<"o","l","d",LF>>

\* os.linesep of the two families of platforms
LineSeps == { <<LF>>, <<CR, LF>> }

VARIABLES
    fs,                 \* path -> file
    output_path,        \* argument: None, or a path
    deduplicate,        \* argument
    validate,           \* argument
    linesep,            \* os.linesep
    pc,                 \* position in process_file
    output_file,        \* local
    rules,              \* local
    parse_errors,       \* local
    duplicates,         \* local
    validation_errors,  \* local
    written,            \* number of rules the write loop has written
    ret,                \* "None" while running, then "True" or "False"
    loaded,             \* history: the rules as load_rules returned them
    opened,             \* history: the paths opened for writing so far
    orig                \* history: the file system before the run

vars == << fs, output_path, deduplicate, validate, linesep, pc, output_file, rules,
           parse_errors, duplicates, validation_errors, written, ret, loaded,
           opened, orig >>

Init ==
    /\ fs \in { [p \in Paths |-> IF p = InputPath THEN f
                                 ELSE IF p = OtherPath THEN File(OldOutput)
                                 ELSE NoFile] :
                f \in { File(d) : d \in InputFiles } \cup { NoFile } }
    /\ output_path \in { None, InputPath, OtherPath }
    /\ deduplicate \in BOOLEAN
    /\ validate \in BOOLEAN
    /\ linesep \in LineSeps
    /\ pc = "start"
    /\ output_file = None
    /\ rules = <<>>
    /\ parse_errors = <<>>
    /\ duplicates = EmptyCounts
    /\ validation_errors = <<>>
    /\ written = 0
    /\ ret = "None"
    /\ loaded = <<>>
    /\ opened = {}
    /\ orig = fs

(***************************************************************************)
(* process_file, one action per step                                       *)
(***************************************************************************)
\* if not input_file.exists(): return False
InputMissing ==
    /\ pc = "start"
    /\ ~fs[InputPath].exists
    /\ ret' = "False"
    /\ pc' = "done"
    /\ UNCHANGED << fs, output_path, deduplicate, validate, linesep, output_file, rules,
                    parse_errors, duplicates, validation_errors, written, loaded,
                    opened, orig >>

\* output_file = Path(output_path) if output_path else input_file
DetermineOutput ==
    /\ pc = "start"
    /\ fs[InputPath].exists
    /\ output_file' = IF output_path # None THEN output_path ELSE InputPath
    /\ pc' = "backup"
    /\ UNCHANGED << fs, output_path, deduplicate, validate, linesep, rules,
                    parse_errors, duplicates, validation_errors, written, ret, loaded,
                    opened, orig >>

\* the condition under which process_file makes the backup
backup_wanted == output_file = InputPath /\ deduplicate

\* shutil.copy2(input_file, backup_path)
CreateBackup ==
    /\ pc = "backup"
    /\ backup_wanted
    /\ fs' = [fs EXCEPT ![with_suffix_list_bak(InputPath)] = fs[InputPath]]
    /\ pc' = "load"
    /\ UNCHANGED << output_path, deduplicate, validate, linesep, output_file, rules,
                    parse_errors, duplicates, validation_errors, written, ret, loaded,
                    opened, orig >>

SkipBackup ==
    /\ pc = "backup"
    /\ ~backup_wanted
    /\ pc' = "load"
    /\ UNCHANGED << fs, output_path, deduplicate, validate, linesep, output_file, rules,
                    parse_errors, duplicates, validation_errors, written, ret, loaded,
                    opened, orig >>

\* rules, parse_errors = load_rules(input_file)
LoadRules ==
    /\ pc = "load"
    /\ LET r == load_rules(fs[InputPath].data)
       IN  /\ rules' = r[1]
           /\ parse_errors' = r[2]
           /\ loaded' = r[1]
    /\ pc' = "dedup"
    /\ UNCHANGED << fs, output_path, deduplicate, validate, linesep, output_file,
                    duplicates, validation_errors, written, ret, opened, orig >>

\* if deduplicate: rules, duplicates = deduplicate_rules(rules)
Deduplicate ==
    /\ pc = "dedup"
    /\ deduplicate
    /\ LET r == deduplicate_rules(rules)
       IN  /\ rules' = r[1]
           /\ duplicates' = r[2]
    /\ pc' = "validate"
    /\ UNCHANGED << fs, output_path, deduplicate, validate, linesep, output_file,
                    parse_errors, validation_errors, written, ret, loaded, opened, orig >>

SkipDeduplicate ==
    /\ pc = "dedup"
    /\ ~deduplicate
    /\ pc' = "validate"
    /\ UNCHANGED << fs, output_path, deduplicate, validate, linesep, output_file, rules,
                    parse_errors, duplicates, validation_errors, written, ret, loaded,
                    opened, orig >>

\* what process_file does with the errors validate_all_rules returned
validation_aborts_never(errors) == FALSE

validation_aborts(errors) == errors # <<>>

\* if validate: ... if validation_errors: return False
ValidateFail ==
    /\ pc = "validate"
    /\ validate
    /\ validation_aborts(validate_all_rules(rules))
    /\ validation_errors' = validate_all_rules(rules)
    /\ ret' = "False"
    /\ pc' = "done"
    /\ UNCHANGED << fs, output_path, deduplicate, validate, linesep, output_file, rules,
                    parse_errors, duplicates, written, loaded, opened, orig >>

ValidatePass ==
    /\ pc = "validate"
    /\ validate
    /\ ~validation_aborts(validate_all_rules(rules))
    /\ validation_errors' = validate_all_rules(rules)
    /\ pc' = "open"
    /\ UNCHANGED << fs, output_path, deduplicate, validate, linesep, output_file, rules,
                    parse_errors, duplicates, written, ret, loaded, opened, orig >>

SkipValidate ==
    /\ pc = "validate"
    /\ ~validate
    /\ pc' = "open"
    /\ UNCHANGED << fs, output_path, deduplicate, validate, linesep, output_file, rules,
                    parse_errors, duplicates, validation_errors, written, ret, loaded,
                    opened, orig >>

\* output_file.open('w'): the file is created or truncated
OpenOutput ==
    /\ pc = "open"
    /\ fs' = [fs EXCEPT ![output_file] = File(<<>>)]
    /\ opened' = opened \cup {output_file}
    /\ written' = 0
    /\ pc' = "write"
    /\ UNCHANGED << output_path, deduplicate, validate, linesep, output_file, rules,
                    parse_errors, duplicates, validation_errors, ret, loaded, orig >>

\* f.write(rule.raw) for the next rule
WriteRule ==
    /\ pc = "write"
    /\ written < Len(rules)
    /\ fs' = [fs EXCEPT ![output_file].data =
                 @ \o write_text(rules[written + 1].raw, linesep)]
    /\ written' = written + 1
    /\ UNCHANGED << output_path, deduplicate, validate, linesep, pc, output_file, rules,
                    parse_errors, duplicates, validation_errors, ret, loaded, opened,
                    orig >>

\* f.write raises OSError: the with block closes the file, except Exception returns False
WriteError ==
    /\ pc = "write"
    /\ written < Len(rules)
    /\ ret' = "False"
    /\ pc' = "done"
    /\ UNCHANGED << fs, output_path, deduplicate, validate, linesep, output_file, rules,
                    parse_errors, duplicates, validation_errors, written, loaded, opened,
                    orig >>

\* the loop is over: the file is closed and process_file returns True
FinishWrite ==
    /\ pc = "write"
    /\ written = Len(rules)
    /\ ret' = "True"
    /\ pc' = "done"
    /\ UNCHANGED << fs, output_path, deduplicate, validate, linesep, output_file, rules,
                    parse_errors, duplicates, validation_errors, written, loaded, opened,
                    orig >>

Next ==
    \/ InputMissing
    \/ DetermineOutput
    \/ CreateBackup
    \/ SkipBackup
    \/ LoadRules
    \/ Deduplicate
    \/ SkipDeduplicate
    \/ ValidateFail
    \/ ValidatePass
    \/ SkipValidate
    \/ OpenOutput
    \/ WriteRule
    \/ WriteError
    \/ FinishWrite

Spec == Init /\ [][Next]_vars

TypeOK ==
    /\ pc \in { "start", "backup", "load", "dedup", "validate", "open", "write", "done" }
    /\ ret \in { "None", "True", "False" }
    /\ written \in 0..Len(rules)

(***************************************************************************)
(* Vocabulary of the properties                                            *)
(***************************************************************************)
IsBoundary(r) == r.is_comment \/ r.is_empty

\* the kind of a line, from its text
Kind(line) ==
    LET t == strip(line)
    IN  IF t = <<>> THEN "Empty"
        ELSE IF Head(t) = "#" THEN "Comment"
        ELSE IF \E i \in 1..Len(t) : t[i] = "," THEN "Typed"
        ELSE "Malformed"

\* type token and value of a Typed line, from its text
TypeToken(line) == upper(strip(SubSeq(strip(line), 1, find(strip(line), ",") - 1)))
ValueText(line) == strip(SubSeq(strip(line), find(strip(line), ",") + 1, Len(strip(line))))

\* the deduplication key of a rule record
KeyText(r) == r.type \o <<",">> \o r.value

\* the elements of s at the indices in keep, in their order
RECURSIVE Pick(_, _, _)
Pick(s, keep, n) ==
    IF n = 0 THEN <<>>
    ELSE Pick(s, keep, n - 1) \o (IF n \in keep THEN << s[n] >> ELSE <<>>)

RawOf(rs) == Concat([i \in 1..Len(rs) |-> rs[i].raw])

\* the rules of the input file of the run, and the sequence the run validates and writes
InputRules == load_rules(orig[InputPath].data)[1]
FinalSequence == IF deduplicate THEN deduplicate_rules(InputRules)[1] ELSE InputRules

Passes(r) == validate_rule(r, VALID_RULE_TYPES)[1]
AllPass(rs) == \A i \in 1..Len(rs) : Passes(rs[i])

Ran == orig[InputPath].exists
AfterLoad == pc \in { "dedup", "validate", "open", "write", "done" }
AfterDedup == deduplicate /\ pc \in { "validate", "open", "write", "done" }

\* rule j of rs repeats the key of an earlier rule of its group
RepeatsInGroup(rs, j) ==
    /\ ~IsBoundary(rs[j])
    /\ \E i \in 1..(j - 1) :
          /\ KeyText(rs[i]) = KeyText(rs[j])
          /\ \A k \in i..j : ~IsBoundary(rs[k])

Repeats(rs) == { j \in 1..Len(rs) : RepeatsInGroup(rs, j) }

(***************************************************************************)
(* C1  Fail-closed write                                                   *)
(***************************************************************************)
\* C1: process_file opens the output file for writing if and only if validation
\* was not requested or every rule of the final sequence (after deduplication
\* when it is on) passes validate_rule; when validation is requested and a rule
\* of the final sequence fails, it returns False and no file content changes
\* except the backup.
C1_FailClosedWrite ==
    /\ opened \subseteq { output_file }
    /\ opened # {} => (~validate \/ AllPass(FinalSequence))
    /\ (pc = "done" /\ Ran /\ (~validate \/ AllPass(FinalSequence)))
          => output_file \in opened
    /\ (pc = "done" /\ Ran /\ validate /\ ~AllPass(FinalSequence))
          => /\ ret = "False"
             /\ fs[InputPath] = orig[InputPath]
             /\ fs[OtherPath] = orig[OtherPath]

\* a run with deduplication and validation in which a duplicate was removed, a
\* rule of the final sequence is invalid, and the run ended without opening
C1_Witness ==
    /\ pc = "done"
    /\ validate /\ deduplicate
    /\ duplicates # EmptyCounts
    /\ ~AllPass(FinalSequence)
    /\ ret = "False"
    /\ opened = {}
    /\ fs[output_file] = orig[output_file]

(***************************************************************************)
(* C2  Group-scoped deduplication                                          *)
(***************************************************************************)
\* C2: deduplicate_rules drops a rule if and only if an earlier rule with the
\* same key (type + "," + value) occurs after the most recent Comment/Empty
\* line; the first occurrence in a group is retained, a rule behind a later
\* boundary is retained, the count of a key is the number of dropped rules with
\* that key, and for #A / DOMAIN,x.com / DOMAIN,x.com / #B / DOMAIN,x.com exactly
\* the third line is removed.
C2_GroupScopedDedup ==
    AfterDedup =>
        /\ rules = Pick(loaded, (1..Len(loaded)) \ Repeats(loaded), Len(loaded))
        /\ DOMAIN duplicates = { KeyText(loaded[j]) : j \in Repeats(loaded) }
        /\ \A k \in DOMAIN duplicates :
              duplicates[k] =
                  Cardinality({ j \in Repeats(loaded) : KeyText(loaded[j]) = k })
        /\ orig[InputPath].data = GroupIsolationFile =>
              /\ Len(loaded) = 5
              /\ rules = << loaded[1], loaded[2], loaded[4], loaded[5] >>
              /\ duplicates = [k \in { KeyText(loaded[2]) } |-> 1]

\* the group isolation input, deduplicated: one line removed, the rule after #B kept
C2_Witness ==
    /\ AfterDedup
    /\ orig[InputPath].data = GroupIsolationFile
    /\ Len(rules) = 4
    /\ rules[4].raw = LineDomain
    /\ rules[3].raw = LineCommentB

(***************************************************************************)
(* C3  Lossless rewrite                                                    *)
(***************************************************************************)
\* the lines of the bytes of a file, each with the line end it has in the file
RECURSIVE physical_lines(_, _)
physical_lines(data, cur) ==
    IF data = <<>> THEN (IF cur = <<>> THEN <<>> ELSE << cur >>)
    ELSE IF Head(data) = CR /\ Len(data) > 1 /\ data[2] = LF
    THEN << cur \o <<CR, LF>> >> \o physical_lines(Tail(Tail(data)), <<>>)
    ELSE IF Head(data) \in { CR, LF }
    THEN << cur \o << Head(data) >> >> \o physical_lines(Tail(data), <<>>)
    ELSE physical_lines(Tail(data), cur \o << Head(data) >>)

InputLines == physical_lines(orig[InputPath].data, <<>>)

\* the input lines the run removed as duplicates
Removed == IF deduplicate THEN Repeats(InputRules) ELSE {}

C4_DedupIdempotent ==
    AfterDedup => deduplicate_rules(rules) = << rules, EmptyCounts >>

\* a first pass that removed two rules of one group
C4_Witness ==
    /\ AfterDedup
    /\ Len(loaded) = 3
    /\ Len(rules) = 1
    /\ \E k \in DOMAIN duplicates : duplicates[k] = 2

(***************************************************************************)
(* C5  Malformed-line preservation                                         *)
(***************************************************************************)
MalformedOf(lines) == SelectSeq(lines, LAMBDA l : Kind(l) = "Malformed")

\* C5: when validation is not requested, every line without a separator (not
\* empty, not a comment) is in the output as it is in the input, whatever the
\* dedup option and however often it occurs; when validation is requested such a
\* line makes the run fail without writing.
C5_MalformedPreserved ==
    /\ (pc = "done" /\ ret = "True" /\ ~validate) =>
          MalformedOf(read_lines(fs[output_file].data))
              = MalformedOf(read_lines(orig[InputPath].data))
    /\ (pc = "done" /\ Ran /\ validate
           /\ MalformedOf(read_lines(orig[InputPath].data)) # <<>>) =>
          (ret = "False" /\ opened = {})

(***************************************************************************)
(* C6  All-or-nothing output write                                         *)
(***************************************************************************)
\* C6: when process_file has ended, also after an I/O error while writing, the
\* output file holds every retained line or is as it was before the run.
C6_AllOrNothing ==
    (pc = "done" /\ Ran) =>
        \/ fs[output_file] = orig[output_file]
        \/ fs[output_file] = File(write_text(RawOf(FinalSequence), linesep))

(***************************************************************************)
(* C7  Backup before in-place overwrite                                    *)
(***************************************************************************)
\* C7: whenever the input file itself has been opened for writing, the backup
\* holds the original input content, and at every point of the run the original
\* content is in the input file or in the backup.
C7_BackupBeforeOverwrite ==
    /\ InputPath \in opened => fs[with_suffix_list_bak(InputPath)] = orig[InputPath]
    /\ Ran => \/ fs[InputPath] = orig[InputPath]
              \/ fs[with_suffix_list_bak(InputPath)] = orig[InputPath]

(***************************************************************************)
(* C8  Validator verdict                                                   *)
(***************************************************************************)
\* the verdict the rule of a line shall get, from the text of the line
Verdict(line) ==
    CASE Kind(line) \in { "Empty", "Comment" } -> TRUE
      [] Kind(line) = "Malformed" -> FALSE
      [] OTHER -> TypeToken(line) \in VALID_RULE_TYPES /\ ValueText(line) # <<>>

\* C8: validate_rule accepts every Empty and Comment rule, fails every rule
\* without a separator, and fails a Typed rule if and only if its uppercased
\* type is not one of the 16 vocabulary tokens or its trimmed value is empty; it
\* rejects FOO,bar and DOMAIN, and accepts DOMAIN-SUFFIX,example.com; the
\* verdict on a rule is the same whatever the other rules are.
C8_ValidatorVerdict ==
    /\ Cardinality(VALID_RULE_TYPES) = 16
    /\ AfterLoad =>
          /\ \A i \in 1..Len(loaded) : Passes(loaded[i]) = Verdict(loaded[i].raw)
          /\ Len(validate_all_rules(loaded))
                = Cardinality({ i \in 1..Len(loaded) : ~Verdict(loaded[i].raw) })
          /\ orig[InputPath].data = ValidationFile =>
                << Passes(loaded[1]), Passes(loaded[2]), Passes(loaded[3]) >>
                    = << FALSE, FALSE, TRUE >>

\* FOO,bar / DOMAIN, / DOMAIN-SUFFIX,example.com loaded and validated
C8_Witness ==
    /\ pc = "done"
    /\ validate
    /\ orig[InputPath].data = ValidationFile
    /\ Len(validation_errors) = 2
    /\ validation_errors[1].text = "Invalid rule type"
    /\ validation_errors[2].text = "Missing value for rule type"

(***************************************************************************)
(* C9  Validation error reporting                                          *)
(***************************************************************************)
\* the input line numbers of the rules of the final sequence that fail, in order
FailingLineNumbers ==
    LET kept == (1..Len(InputRules)) \ Removed
        RECURSIVE nums(_)
        nums(n) ==
            IF n = 0 THEN <<>>
            ELSE nums(n - 1) \o
                 (IF n \in kept /\ ~Passes(InputRules[n]) THEN << n >> ELSE <<>>)
    IN  nums(Len(InputRules))

\* C9: the failures reported by a run with validation are one per failing rule,
\* in line order, each with the 1-based number the line has in the input file
\* and its content, also when deduplication removed earlier lines.
C9_ErrorsCarryLineNumbers ==
    (pc = "done" /\ Ran /\ validate /\ ret = "False" /\ opened = {}) =>
        /\ Len(validation_errors) = Len(FailingLineNumbers)
        /\ \A k \in 1..Len(validation_errors) :
              /\ validation_errors[k].content = strip(InputRules[FailingLineNumbers[k]].raw)
              /\ "line_num" \in DOMAIN validation_errors[k]
              /\ validation_errors[k].line_num = FailingLineNumbers[k]

(***************************************************************************)
(* C10  Line classification                                                *)
(***************************************************************************)
\* C10: parse_rule marks a line as without separator exactly when it is not
\* empty, not a comment and holds no comma; load_rules warns exactly for those
\* lines; validate_rule reports "Unknown rule format" only for them and
\* "Invalid rule type" only for Typed lines; a Typed line and a line without
\* separator never share a deduplication key.
C10_LineClassification ==
    AfterLoad =>
        /\ \A i \in 1..Len(loaded) :
              /\ loaded[i].is_empty = (Kind(loaded[i].raw) = "Empty")
              /\ loaded[i].is_comment = (Kind(loaded[i].raw) = "Comment")
              /\ (loaded[i].type = UNKNOWN) = (Kind(loaded[i].raw) = "Malformed")
              /\ LET v == validate_rule(loaded[i], VALID_RULE_TYPES)
                 IN  /\ v[2].text = "Unknown rule format"
                        => Kind(loaded[i].raw) = "Malformed"
                     /\ v[2].text = "Invalid rule type"
                        => Kind(loaded[i].raw) = "Typed"
        /\ { parse_errors[k].line_num : k \in 1..Len(parse_errors) }
              = { i \in 1..Len(loaded) : Kind(loaded[i].raw) = "Malformed" }
        /\ \A i, j \in 1..Len(loaded) :
              (Kind(loaded[i].raw) = "Typed" /\ Kind(loaded[j].raw) = "Malformed")
                  => key_of(loaded[i]) # key_of(loaded[j])

====
